---- MODULE Spec2Model ----
(***************************************************************************)
(* Model of tensorforce/core/memories/prioritized_replay.py: the SumTree   *)
(* (array-backed sum tree with a circular write cursor) and the            *)
(* PrioritizedReplay memory built on it.                                   *)
(*                                                                         *)
(* Python list index i of SumTree._memory is element i + 1 of the TLA+     *)
(* sequence `memory`.  Internal nodes are integers, leaves are SumRow      *)
(* records.  Priorities and losses are non-negative integers (exact        *)
(* arithmetic, no floating-point drift).  A real-valued sampling target p  *)
(* is carried as the integer 2 * p: an even value is an integral target,   *)
(* an odd value stands for every target strictly between two integers,     *)
(* which the descent cannot tell apart since all sums are integers.        *)
(***************************************************************************)
EXTENDS Integers, Sequences, FiniteSets, TLC

VARIABLES
    capacity,               \* SumTree._capacity
    memory,                 \* SumTree._memory
    position,               \* SumTree._position
    prioritization_weight,  \* PrioritizedReplay.prioritization_weight
    internals_config,       \* PrioritizedReplay.internals_config (set or not)
    batch_indices,          \* PrioritizedReplay.batch_indices
    none_priority_index,    \* PrioritizedReplay.none_priority_index
    last_observation,       \* PrioritizedReplay.last_observation
    inserts,                \* number of SumTree.put calls made so far
    calls,                  \* number of add_observation calls made so far
    fresh_batch,            \* a get_batch was called since construction or
                            \* since the last update_batch that completed
    batch_calls,            \* number of add_observation calls made before
                            \* the last get_batch
    op,                     \* the operation called last
    arg,                    \* its arguments, as a tuple of integers
    raised,                 \* the exception it raised, or NoError
    result                  \* what it returned (tuple of integers)

vars == <<capacity, memory, position, prioritization_weight, internals_config,
          batch_indices, none_priority_index, last_observation, inserts,
          calls, fresh_batch, batch_calls, op, arg, raised, result>>

treeVars == <<capacity, memory, position>>
replayVars == <<prioritization_weight, internals_config, batch_indices,
                none_priority_index, last_observation, calls, fresh_batch,
                batch_calls>>

\* ---------------------------------------------------------------- bounds
MaxCapacity == 3
MaxPuts == 5
MaxPriority == 2
MaxObservations == 4
MaxBatchSize == 2
MaxLoss == 1
MaxNonePriorityIndex == 3

\* ---------------------------------------------------------------- values
\* Python's None where a number is expected (a priority, a list entry).
None == -1

NoError == "none"
UnseenError == "TensorForceError: Trying to replace unseen observations"
NoBatchError == "TensorForceError: Need to call get_batch before each update_batch call"
LossesError == "TensorForceError: For all instances a loss value has to be provided"
RuntimeError == "RuntimeError: Right child is expected to exist"
TypeError == "TypeError"
IndexError == "IndexError"

\* batch_indices = None
NoBatch == <<None>>

\* last_observation = None
NoObservation == <<>>

SumRow(item, priority) == [item |-> item, priority |-> priority]

\* the None appended by put before the row is written
NoneEntry == [item |-> <<>>, priority |-> None]

\* ---------------------------------------------------------------- SumTree
\* self._memory[i]
At(mem, i) == mem[i + 1]

\* `priority or 0`
Or0(priority) == IF priority = None \/ priority = 0 THEN 0 ELSE priority

\* SumTree.__init__: [0] * (capacity - 1)
InitMemory(cap) == [i \in 1..(cap - 1) |-> 0]

\* SumTree.__len__
TreeLen(mem, cap) == Len(mem) - (cap - 1)

\* SumTree._isfull
IsFull(mem, cap) == TreeLen(mem, cap) = cap

\* SumTree._update_internal_nodes
RECURSIVE UpdateInternalNodes(_, _, _)
UpdateInternalNodes(mem, index, delta) ==
    IF index > 0
    THEN LET parent == (index - 1) \div 2
         IN  UpdateInternalNodes([mem EXCEPT ![parent + 1] = @ + delta],
                                 parent, delta)
    ELSE mem

\* the position returned is always that of the first leaf
NextPosition_First(cap, pos) == cap - 1

\* SumTree._next_position_then_increment: the position returned
NextPosition(cap, pos) == (cap - 1) + pos

\* the cursor stops at the last slot instead of wrapping
IncrementedPosition_NoWrap(cap, pos) == IF pos + 1 < cap THEN pos + 1 ELSE pos

\* SumTree._next_position_then_increment: the cursor afterwards
IncrementedPosition(cap, pos) == (pos + 1) % cap

\* put that forgets the priority of the row it overwrites
PutMemory_NoOld(mem, cap, pos, item, priority) ==
    LET m1 == IF ~IsFull(mem, cap) THEN Append(mem, NoneEntry) ELSE mem
        p == NextPosition(cap, pos)
        row == SumRow(item, priority)
        m2 == [m1 EXCEPT ![p + 1] = row]
    IN  UpdateInternalNodes(m2, p, Or0(row.priority))

\* SumTree.put: the memory afterwards
PutMemory(mem, cap, pos, item, priority) ==
    LET m1 == IF ~IsFull(mem, cap) THEN Append(mem, NoneEntry) ELSE mem
        p == NextPosition(cap, pos)
        old_priority == IF At(m1, p) = NoneEntry THEN 0
                        ELSE Or0(At(m1, p).priority)
        row == SumRow(item, priority)
        m2 == [m1 EXCEPT ![p + 1] = row]
    IN  UpdateInternalNodes(m2, p, Or0(row.priority) - old_priority)

\* _move that propagates the new priority instead of the difference
MoveMemory_NoOld(mem, index, new_priority) ==
    LET item == At(mem, index).item
        m1 == [mem EXCEPT ![index + 1] = SumRow(item, new_priority)]
    IN  UpdateInternalNodes(m1, index, new_priority)

\* SumTree._move: the memory afterwards (index names a leaf row)
MoveMemory(mem, index, new_priority) ==
    LET item == At(mem, index).item
        old_priority == Or0(At(mem, index).priority)
        m1 == [mem EXCEPT ![index + 1] = SumRow(item, new_priority)]
    IN  UpdateInternalNodes(m1, index, new_priority - old_priority)

\* SumTree._sample_with_priority, the loop from `parent`; p2 = 2 * p
RECURSIVE SampleWithPriority(_, _)
SampleWithPriority(parent, p2) ==
    LET left == 2 * parent + 1
    IN  IF left >= Len(memory)
        THEN [index |-> parent, raised |-> NoError]
        ELSE LET left_p == IF left < capacity - 1 THEN At(memory, left)
                           ELSE Or0(At(memory, left).priority)
             IN  IF p2 <= 2 * left_p
                 THEN SampleWithPriority(left, p2)
                 ELSE IF left + 1 >= Len(memory)
                      THEN [index |-> parent, raised |-> RuntimeError]
                      ELSE SampleWithPriority(left + 1, p2 - 2 * left_p)

\* the value of node i as a number: a sum, or a leaf's priority or 0;
\* 0 for a node that is not in the list
NodeValue(mem, cap, i) ==
    IF i >= Len(mem) THEN 0
    ELSE IF i < cap - 1 THEN At(mem, i)
    ELSE Or0(At(mem, i).priority)

\* the leaves, self._memory[self._capacity - 1:]
Leaves(mem, cap) == SubSeq(mem, cap, Len(mem))

\* indices of the populated leaves
LeafIndices(mem, cap) == (cap - 1)..(Len(mem) - 1)

\* the root value self._memory[0] as a number
RootSum(mem, cap) == NodeValue(mem, cap, 0)

\* the targets random.uniform(lower, upper) can return for stratum i of n,
\* lower = max(i * delta_p, 0), upper = min((i + 1) * delta_p, root),
\* delta_p = root / n; as values 2 * p
StratumTargets(root, n, i) ==
    {p2 \in 0..(2 * root) :
        IF p2 % 2 = 0
        THEN 2 * i * root <= p2 * n /\ p2 * n <= 2 * (i + 1) * root
        ELSE 2 * i * root < (p2 + 1) * n /\ (p2 - 1) * n < 2 * (i + 1) * root}

\* what _sample_with_priority can return for stratum i of n
StratumResults(n, i) ==
    {SampleWithPriority(0, p2) :
        p2 \in StratumTargets(RootSum(memory, capacity), n, i)}

\* SumTree.sample_minibatch, the loop of lines 142-146 up to stratum k of
\* n: the lists of _sample_with_priority results the random draws allow
RECURSIVE Draws(_, _)
Draws(n, k) ==
    IF k = 0 THEN {<<>>}
    ELSE {Append(d, r) : d \in Draws(n, k - 1),
                         r \in StratumResults(n, k - 1)}

\* SumTree.sample_minibatch: the outcomes the random draws allow, each a
\* record [indices, raised]
SampleMinibatch(batch_size) ==
    IF TreeLen(memory, capacity) = 0
    THEN {[indices |-> <<>>, raised |-> NoError]}
    ELSE IF capacity = 1
    THEN \* self._memory[0] is a SumRow: `self._memory[0] / batch_size`
         {[indices |-> <<>>, raised |-> TypeError]}
    ELSE {IF \E k \in 1..batch_size : d[k].raised # NoError
          THEN [indices |-> <<>>, raised |-> RuntimeError]
          ELSE [indices |-> [k \in 1..batch_size |-> d[k].index],
                raised |-> NoError] :
            d \in Draws(batch_size, batch_size)}

\* ------------------------------------------------- SumTree used directly
\* SumTree(capacity), inside a freshly constructed PrioritizedReplay
Constructed(cap, weight) ==
    /\ capacity = cap
    /\ memory = InitMemory(cap)
    /\ position = 0
    /\ prioritization_weight = weight
    /\ internals_config = FALSE
    /\ batch_indices = NoBatch
    /\ none_priority_index = 0
    /\ last_observation = NoObservation
    /\ inserts = 0
    /\ calls = 0
    /\ fresh_batch = FALSE
    /\ batch_calls = 0
    /\ op = "init"
    /\ arg = <<>>
    /\ raised = NoError
    /\ result = <<>>

TreeInit == \E cap \in 1..MaxCapacity : Constructed(cap, 1)

\* tree.put(item, priority): item number inserts + 1
TreePut ==
    /\ inserts < MaxPuts
    /\ \E priority \in {None} \cup (0..MaxPriority) :
        /\ memory' = PutMemory(memory, capacity, position, <<inserts + 1>>, priority)
        /\ arg' = <<inserts + 1, priority>>
    /\ position' = IncrementedPosition(capacity, position)
    /\ inserts' = inserts + 1
    /\ op' = "put"
    /\ raised' = NoError
    /\ result' = <<>>
    /\ UNCHANGED <<capacity, replayVars>>

\* tree.move(external_index, new_priority)
TreeMove ==
    /\ \E external_index \in 0..(capacity - 1), new_priority \in 0..MaxPriority :
        LET index == external_index + (capacity - 1)
        IN  /\ arg' = <<external_index, new_priority>>
            /\ IF index >= Len(memory)
               THEN raised' = IndexError /\ memory' = memory
               ELSE raised' = NoError /\ memory' = MoveMemory(memory, index, new_priority)
    /\ op' = "move"
    /\ result' = <<>>
    /\ UNCHANGED <<capacity, position, inserts, replayVars>>

\* tree._sample_with_priority(p), p in [0, root]
TreeSample ==
    /\ \E p2 \in 0..(2 * RootSum(memory, capacity)) :
        LET r == SampleWithPriority(0, p2)
        IN  /\ arg' = <<p2>>
            /\ raised' = r.raised
            /\ result' = <<r.index>>
    /\ op' = "_sample_with_priority"
    /\ UNCHANGED <<treeVars, inserts, replayVars>>

TreeNext == TreePut \/ TreeMove \/ TreeSample

SpecTree == TreeInit /\ [][TreeNext]_vars

\* ------------------------------------------------------ PrioritizedReplay
\* the exponents a memory is constructed with: 0 (uniform weighting) and
\* the default of 1.0 (proportional prioritization)
Weights == {0, 1}

\* loss ** self.prioritization_weight
RECURSIVE Pow(_, _)
Pow(loss, weight) == IF weight = 0 THEN 1 ELSE loss * Pow(loss, weight - 1)

\* list(xrange(a, b))
Range(a, b) == [k \in 1..(IF b > a THEN b - a ELSE 0) |-> a + k - 1]

\* lst[:n], n >= 0
Prefix(lst, n) == SubSeq(lst, 1, IF n < Len(lst) THEN n ELSE Len(lst))

\* lst without its k-th entry
Without(lst, k) == SubSeq(lst, 1, k - 1) \o SubSeq(lst, k + 1, Len(lst))

\* the orders np.random.shuffle can leave lst in
RECURSIVE Shuffles(_)
Shuffles(lst) ==
    IF lst = <<>> THEN {<<>>}
    ELSE UNION {{<<lst[k]>> \o rest : rest \in Shuffles(Without(lst, k))} :
                   k \in 1..Len(lst)}

\* get_batch, `unseen_indices`
UnseenIndices ==
    Range(none_priority_index + capacity - 1,
          TreeLen(memory, capacity) + capacity - 1)

\* get_batch, `self.batch_indices = unseen_indices[:batch_size]`
PhaseOne(batch_size) == Prefix(UnseenIndices, batch_size)

\* get_batch, lines 219-236: the outcomes [batch_indices, raised] that the
\* random draws and the shuffle allow
GetBatchOutcomes(batch_size) ==
    LET first == PhaseOne(batch_size)
        remaining == batch_size - Len(first)
        sampled == IF remaining # 0
                   THEN SampleMinibatch(remaining)
                   ELSE {[indices |-> <<>>, raised |-> NoError]}
    IN  UNION {IF s.raised # NoError
               THEN {[batch_indices |-> first, raised |-> s.raised]}
               ELSE {[batch_indices |-> b,
                      \* `observation, _ = self.observations._memory[index]`
                      raised |-> IF \E k \in 1..Len(b) : b[k] < capacity - 1
                                 THEN TypeError ELSE NoError] :
                        b \in Shuffles(first \o s.indices)} :
               s \in sampled}

\* update_batch, the loop of lines 272-275 from pair k on: the state
\* [memory, npi, raised] it ends in
RECURSIVE UpdateLoop(_, _, _, _)
UpdateLoop(mem, npi, losses, k) ==
    IF k > Len(batch_indices) \/ k > Len(losses)
    THEN [memory |-> mem, npi |-> npi, raised |-> NoError]
    ELSE IF batch_indices[k] < capacity - 1
    THEN \* `item, old_priority = self._memory[index]` on an internal sum
         [memory |-> mem, npi |-> npi, raised |-> TypeError]
    ELSE UpdateLoop(MoveMemory(mem, batch_indices[k],
                               Pow(losses[k], prioritization_weight)),
                    npi + 1, losses, k + 1)

\* the length test rejects only a list that is too long
LossesMismatch_Longer(losses, indices) == Len(losses) > Len(indices)

\* update_batch, `len(loss_per_instance) != len(self.batch_indices)`
LossesMismatch(losses, indices) == Len(losses) # Len(indices)

\* the guard is missing
ReplacesUnseen_Never(mem, cap, npi) == FALSE

\* the guard lets a counter of 0 through
ReplacesUnseen_Negative(mem, cap, npi) == IsFull(mem, cap) /\ npi < 0

\* add_observation, lines 185-186: full and no seen observation to replace
ReplacesUnseen(mem, cap, npi) == IsFull(mem, cap) /\ npi <= 0

\* the new observation is put in front of the pending one
Completed_Swapped(last, obs) == <<obs>> \o last

\* add_observation, line 182: `self.last_observation + (state, internal)`
Completed(last, obs) == last \o <<obs>>

\* the pending observation is dropped instead of stored
Pending_Dropped(obs) == NoObservation

\* add_observation, line 193: the tuple kept in last_observation
Pending(obs) == <<obs>>

\* the loss_per_instance lists a caller passes for a batch context of n
\* entries: every list of n losses, and one list that is one loss short
\* and one that is one loss long (update_batch reads only the length of a
\* list it rejects)
LossLists(n) ==
    [1..n -> 0..MaxLoss]
        \cup {[k \in 1..m |-> 0] : m \in {n - 1, n + 1} \ {-1}}

Init == \E cap \in 1..MaxCapacity, weight \in Weights : Constructed(cap, weight)

\* add_observation(state, action, reward, terminal, internal): observation
\* number calls + 1, internal not None
AddObservation ==
    /\ calls < MaxObservations
    /\ calls' = calls + 1
    /\ internals_config' = TRUE
    /\ op' = "add_observation"
    /\ arg' = <<calls + 1>>
    /\ result' = <<>>
    /\ IF last_observation # NoObservation
       THEN LET observation == Completed(last_observation, calls + 1)
            IN  IF ReplacesUnseen(memory, capacity, none_priority_index)
                THEN /\ raised' = UnseenError
                     /\ UNCHANGED <<memory, position, inserts,
                                    none_priority_index, last_observation>>
                ELSE /\ none_priority_index' =
                            IF IsFull(memory, capacity)
                            THEN none_priority_index - 1
                            ELSE none_priority_index
                     /\ memory' = PutMemory(memory, capacity, position, observation, None)
                     /\ position' = IncrementedPosition(capacity, position)
                     /\ inserts' = inserts + 1
                     /\ last_observation' = Pending(calls + 1)
                     /\ raised' = NoError
       ELSE /\ last_observation' = Pending(calls + 1)
            /\ raised' = NoError
            /\ UNCHANGED <<memory, position, inserts, none_priority_index>>
    /\ UNCHANGED <<capacity, prioritization_weight, batch_indices, fresh_batch,
                   batch_calls>>

\* get_batch(batch_size)
GetBatch ==
    /\ \E batch_size \in 1..MaxBatchSize :
        /\ arg' = <<batch_size>>
        /\ IF ~internals_config
           THEN \* `for shape, dtype in self.internals_config` on None
                /\ raised' = TypeError
                /\ result' = <<>>
                /\ batch_indices' = batch_indices
           ELSE \E o \in GetBatchOutcomes(batch_size) :
                /\ batch_indices' = o.batch_indices
                /\ raised' = o.raised
                /\ result' = IF o.raised = NoError THEN o.batch_indices ELSE <<>>
    /\ op' = "get_batch"
    /\ fresh_batch' = TRUE
    /\ batch_calls' = calls
    /\ UNCHANGED <<treeVars, inserts, prioritization_weight, internals_config,
                   none_priority_index, last_observation, calls>>

\* update_batch(loss_per_instance)
UpdateBatch ==
    /\ \E loss_per_instance \in LossLists(IF batch_indices = NoBatch THEN 0
                                            ELSE Len(batch_indices)) :
        /\ arg' = loss_per_instance
        /\ IF batch_indices = NoBatch
           THEN /\ raised' = NoBatchError
                /\ UNCHANGED <<memory, none_priority_index>>
           ELSE IF LossesMismatch(loss_per_instance, batch_indices)
           THEN /\ raised' = LossesError
                /\ UNCHANGED <<memory, none_priority_index>>
           ELSE LET r == UpdateLoop(memory, none_priority_index,
                                    loss_per_instance, 1)
                IN  /\ r.npi <= MaxNonePriorityIndex
                    /\ memory' = r.memory
                    /\ none_priority_index' = r.npi
                    /\ raised' = r.raised
    /\ op' = "update_batch"
    /\ fresh_batch' = (fresh_batch /\ raised' # NoError)
    /\ result' = <<>>
    /\ UNCHANGED <<capacity, position, inserts, prioritization_weight,
                   internals_config, batch_indices, last_observation, calls,
                   batch_calls>>

Next == AddObservation \/ GetBatch \/ UpdateBatch

Spec == Init /\ [][Next]_vars

\* ------------------------------------------------------------ properties
Occupancy == TreeLen(memory, capacity)

\* the sum of `priority or 0` over the leaves lst
RECURSIVE PrioritySum(_)
PrioritySum(lst) ==
    IF lst = <<>> THEN 0 ELSE Or0(Head(lst).priority) + PrioritySum(Tail(lst))

\* the items held by the leaves
StoredItems == {At(memory, i).item : i \in LeafIndices(memory, capacity)}

\* C1: after any sequence of put and move calls every internal node holds
\* the sum of its two children's values, a child that is missing from the
\* list or a leaf whose priority is unset counting as 0; the root (an
\* internal node when capacity >= 2) equals the sum of the priorities of
\* all stored leaves.
C1_SumInvariant ==
    /\ \A i \in 0..(capacity - 2) :
          At(memory, i) = NodeValue(memory, capacity, 2 * i + 1)
                        + NodeValue(memory, capacity, 2 * i + 2)
    /\ capacity >= 2 => At(memory, 0) = PrioritySum(Leaves(memory, capacity))

\* a scored leaf was overwritten after wrap-around and a leaf was re-scored,
\* next to a leaf whose priority is unset
C1_Witness ==
    /\ op = "move" /\ raised = NoError
    /\ capacity = 3 /\ inserts > capacity
    /\ At(memory, 0) > 0
    /\ \E i \in LeafIndices(memory, capacity) : At(memory, i).priority = None

\* C2: after capacity + k puts (k >= 1), whatever the priorities, the leaves
\* hold exactly items k + 1 .. capacity + k; items 1 .. k are stored nowhere.
C2_Fifo ==
    inserts > capacity =>
        /\ Occupancy = capacity
        /\ StoredItems = {<<n>> : n \in (inserts - capacity + 1)..inserts}
        /\ \A n \in 1..(inserts - capacity) : <<n>> \notin StoredItems

\* two items were evicted from a tree of capacity 3
C2_Witness == op = "put" /\ capacity = 3 /\ inserts = capacity + 2

\* C10: on a tree with occupancy >= 1 and for a target in [0, root], the
\* descent raises nothing and returns the index of a populated leaf.
C10_SampleReturnsLeaf ==
    (op = "_sample_with_priority" /\ Occupancy >= 1) =>
        /\ raised = NoError
        /\ result[1] \in LeafIndices(memory, capacity)

\* the observation number that completed the transition held by leaf i:
\* a transition inserted earlier has a smaller one
Age(i) == At(memory, i).item[1]

Unset(i) == At(memory, i).priority = None

UnsetLeaves == {i \in LeafIndices(memory, capacity) : Unset(i)}

\* the n oldest-inserted leaves among the set S of leaves
Oldest(S, n) == {i \in S : Cardinality({j \in S : Age(j) < Age(i)}) < n}

\* the entries of a list, as a set
Entries(lst) == {lst[k] : k \in 1..Len(lst)}

Min(a, b) == IF a < b THEN a ELSE b

\* C3: when no stored transition has a scored priority and occupancy >=
\* batch_size, get_batch(batch_size) selects exactly the batch_size
\* oldest-inserted transitions of the buffer (as a set).
C3_UnsetFirstOldest ==
    (/\ op = "get_batch" /\ internals_config
     /\ UnsetLeaves = LeafIndices(memory, capacity)
     /\ Occupancy >= arg[1]) =>
        /\ raised = NoError
        /\ Entries(batch_indices) = Oldest(LeafIndices(memory, capacity), arg[1])

\* C4: Phase 1 of get_batch(batch_size) selects exactly the min(batch_size,
\* U) oldest of the U leaves whose priority is unset, without duplicates and
\* never a scored leaf; weighted sampling runs only when Phase 1 has taken
\* every unset leaf.
C4_PhaseOneUnsetOldest ==
    (op = "get_batch" /\ internals_config) =>
        LET first == PhaseOne(arg[1])
        IN  /\ Entries(first) = Oldest(UnsetLeaves,
                                       Min(arg[1], Cardinality(UnsetLeaves)))
            /\ Cardinality(Entries(first)) = Len(first)
            /\ arg[1] - Len(first) # 0 => UnsetLeaves \subseteq Entries(first)

\* C5: update_batch with a losses list whose length differs from that of
\* the retained batch context raises the losses error and leaves the tree
\* (leaf priorities and sums), the boundary counter and the context as
\* they were.
C5_MismatchChangesNothing ==
    [][(/\ op' = "update_batch"
        /\ batch_indices # NoBatch
        /\ Len(arg') # Len(batch_indices)) =>
            /\ raised' = LossesError
            /\ UNCHANGED <<memory, none_priority_index, batch_indices>>]_vars

\* a mismatched update was rejected on a tree that holds a scored leaf
C5_Witness ==
    /\ op = "update_batch" /\ raised = LossesError
    /\ Len(arg) < Len(batch_indices)
    /\ \E i \in LeafIndices(memory, capacity) : ~Unset(i)

\* C6: an update_batch call with no get_batch call since construction or
\* since the previous update_batch raises the missing-context error and
\* writes no priority.
C6_UpdateOncePerGetBatch ==
    [][(op' = "update_batch" /\ ~fresh_batch) =>
            /\ raised' = NoBatchError
            /\ UNCHANGED <<memory, none_priority_index>>]_vars

\* C7: when occupancy < batch_size, get_batch raises nothing and retains
\* fewer than batch_size indices: no more than there are stored
\* transitions, and each one the index of a stored transition.
C7_SmallBatch ==
    (op = "get_batch" /\ internals_config /\ Occupancy < arg[1]) =>
        /\ raised = NoError
        /\ Len(batch_indices) < arg[1]
        /\ Len(batch_indices) <= Occupancy
        /\ Entries(batch_indices) \subseteq LeafIndices(memory, capacity)

\* C8: add_observation raises exactly when a half-transition is pending,
\* the buffer is full and the boundary counter is 0; the error is the
\* unseen-observations one and the failed call leaves the tree, the write
\* cursor and the boundary counter unchanged.
C8_CapacityExhausted ==
    [][op' = "add_observation" =>
        /\ (raised' # NoError) <=>
                (/\ last_observation # NoObservation
                 /\ IsFull(memory, capacity)
                 /\ none_priority_index = 0)
        /\ raised' # NoError =>
                /\ raised' = UnseenError
                /\ UNCHANGED <<memory, position, none_priority_index>>]_vars

\* a failed add_observation, and one that evicted a seen transition
C8_Witness ==
    /\ op = "add_observation" /\ raised = UnseenError
    /\ capacity >= 2 /\ IsFull(memory, capacity)

\* C9 as stated: after every add_observation call, failed or not, the
\* pending half-transition is the observation passed to the call.
C9_PendingRegardless == op = "add_observation" => last_observation = arg

\* C9 amended: after an add_observation call that completes, the pending
\* half-transition is the observation passed to it; a call that fails with
\* the capacity-exhaustion error leaves the pending half-transition as it
\* was.
C9_PendingAfterCall ==
    [][op' = "add_observation" =>
        IF raised' = NoError
        THEN last_observation' = arg'
        ELSE last_observation' = last_observation /\ last_observation' # arg']_vars

\* a call failed and the pending half-transition is an earlier observation
C9_Witness ==
    /\ op = "add_observation" /\ raised = UnseenError
    /\ last_observation # NoObservation /\ last_observation # arg

\* C11: update_batch with as many losses as the retained batch context has
\* entries raises nothing, leaves every leaf named in the context with the
\* priority loss ** prioritization_weight of the loss paired with it, and
\* leaves every other leaf (item and priority) as it was.
C11_UpdateSetsPriorities ==
    [][(/\ op' = "update_batch"
        /\ batch_indices # NoBatch
        /\ Len(arg') = Len(batch_indices)) =>
            /\ raised' = NoError
            /\ \A k \in 1..Len(batch_indices) :
                  /\ batch_indices[k] \in LeafIndices(memory', capacity)
                  /\ At(memory', batch_indices[k]).priority =
                        Pow(arg'[k], prioritization_weight)
            /\ \A i \in LeafIndices(memory, capacity) \ Entries(batch_indices) :
                  At(memory', i) = At(memory, i)]_vars

\* C12: the first add_observation call only stores the pending
\* half-transition and inserts nothing; every later call that completes
\* inserts exactly one transition, in the slot the cursor names, made of the
\* pending observation (that of the last completed call) followed by the
\* current one, with priority unset, and changes no other leaf; a failed
\* call inserts nothing.  So the calls that completed, numbered 1..n, leave
\* n - 1 inserted transitions.
C12_PairsConsecutive ==
    [][op' = "add_observation" =>
        IF calls = 0
        THEN /\ raised' = NoError
             /\ memory' = memory /\ inserts' = inserts
             /\ last_observation' = arg'
        ELSE IF raised' = NoError
        THEN LET slot == (capacity - 1) + position
             IN  /\ inserts' = inserts + 1
                 /\ Len(memory') - Len(memory) \in {0, 1}
                 /\ At(memory', slot) = SumRow(last_observation \o arg', None)
                 /\ \A i \in LeafIndices(memory, capacity) \ {slot} :
                       At(memory', i) = At(memory, i)
        ELSE memory' = memory /\ inserts' = inserts]_vars

\* a call completed after an earlier call had failed, on a buffer that has
\* wrapped around
C12_Witness ==
    /\ op = "add_observation" /\ raised = NoError
    /\ calls > inserts + 1
    /\ inserts > capacity

\* C13: move(i, p) on a populated leaf changes the root sum by exactly
\* p - old_priority(i), an unset old priority counting as 0, gives leaf i
\* the priority p and keeps its item, and leaves every other leaf (item and
\* priority), the write cursor and the occupancy unchanged.
C13_MoveDelta ==
    [][(op' = "move" /\ raised' = NoError) =>
        LET index == arg'[1] + (capacity - 1)
        IN  /\ RootSum(memory', capacity) - RootSum(memory, capacity)
                  = arg'[2] - Or0(At(memory, index).priority)
            /\ At(memory', index) = SumRow(At(memory, index).item, arg'[2])
            /\ \A i \in LeafIndices(memory, capacity) \ {index} :
                  At(memory', i) = At(memory, i)
            /\ position' = position
            /\ Len(memory') = Len(memory)]_vars

\* a leaf of a full tree of capacity 3 was re-scored while other leaves
\* carry priorities of their own
C13_Witness ==
    /\ op = "move" /\ raised = NoError
    /\ capacity = 3 /\ Occupancy = 3 /\ inserts > capacity
    /\ arg[2] > 0 /\ RootSum(memory, capacity) > arg[2]

\* C14: in every state the occupancy is at most the capacity and the write
\* cursor is in [0, capacity) and equals the number of inserts so far
\* modulo the capacity; no operation lowers the occupancy, and each insert
\* writes its row to the slot the cursor named before it advanced.
C14_CursorAndOccupancy ==
    /\ [](/\ Occupancy <= capacity
          /\ position \in 0..(capacity - 1)
          /\ position = inserts % capacity)
    /\ [][/\ Occupancy' >= Occupancy
          /\ op' = "put" =>
                /\ inserts' = inserts + 1
                /\ At(memory', (capacity - 1) + position)
                      = SumRow(<<arg'[1]>>, arg'[2])]_vars

\* the cursor has wrapped around twice on a full tree of capacity 2
C14_Witness ==
    /\ op = "put" /\ capacity = 2 /\ Occupancy = capacity
    /\ inserts = 2 * capacity + 1 /\ position = 1

\* the leaves whose row differs between the lists mem and mem2
ChangedLeaves(mem, mem2) ==
    {i \in LeafIndices(mem, capacity) : At(mem2, i) # At(mem, i)}

\* C15: a get_batch call made while the context of an earlier get_batch is
\* still retained (no update_batch completed in between) raises nothing and
\* leaves the indices it selected as the retained context; the update_batch
\* that follows checks the length of its losses against that context and
\* writes priorities to leaves named in it only.
C15_SecondGetBatchReplaces ==
    [][/\ (op' = "get_batch" /\ fresh_batch /\ batch_indices # NoBatch) =>
            /\ raised' = NoError
            /\ batch_indices' = result'
       /\ (op' = "update_batch" /\ fresh_batch /\ batch_indices # NoBatch) =>
            /\ (raised' = LossesError) <=> (Len(arg') # Len(batch_indices))
            /\ ChangedLeaves(memory, memory') \subseteq Entries(batch_indices)]_vars

\* C16: the boundary counter is never negative; an add_observation call
\* that would take it below 0 (a half-transition pending, the buffer full,
\* the counter at 0 or less) fails with the unseen-observations error and
\* leaves the counter as it was, and a call that lowers the counter lowers
\* it by one from a positive value.
C16_CounterNotNegative ==
    /\ [](none_priority_index >= 0)
    /\ [][op' = "add_observation" =>
            /\ (/\ last_observation # NoObservation
                /\ IsFull(memory, capacity)
                /\ none_priority_index - 1 < 0) =>
                    /\ raised' = UnseenError
                    /\ none_priority_index' = none_priority_index
            /\ none_priority_index' < none_priority_index =>
                    /\ none_priority_index >= 1
                    /\ none_priority_index' = none_priority_index - 1]_vars

\* the counter was lowered to 0 by an eviction and the next call failed
C16_Witness ==
    /\ op = "add_observation" /\ raised = UnseenError
    /\ none_priority_index = 0
    /\ inserts > capacity

\* C17: in every state the boundary counter is a boundary inside the
\* buffer: 0 <= none_priority_index <= occupancy, every leaf at an external
\* index below it has a scored priority and every leaf at or above it is
\* still unset.
C17_CounterIsBoundary ==
    /\ 0 <= none_priority_index
    /\ none_priority_index <= Occupancy
    /\ \A i \in LeafIndices(memory, capacity) :
          Unset(i) <=> (i - (capacity - 1) >= none_priority_index)

\* C18: an add_observation call that finds the buffer full and, in the slot
\* the cursor names, a transition whose priority is still unset fails with
\* the unseen-observations error and overwrites nothing.
C18_NeverEvictsUnseen ==
    [][(/\ op' = "add_observation"
        /\ last_observation # NoObservation
        /\ IsFull(memory, capacity)
        /\ Unset((capacity - 1) + position)) =>
            /\ raised' = UnseenError
            /\ memory' = memory]_vars

\* the transition held by leaf i was in the buffer when the last get_batch
\* ran: the add_observation call that completed it came before
StoredAtGetBatch(i) == At(memory, i).item[2] <= batch_calls

\* C19: update_batch gives a priority only to transitions that the
\* get_batch which produced the retained context returned: every leaf it
\* writes is named in the context and still holds the transition it held
\* when that get_batch ran, not one written over it since.
C19_ScoresOnlyReturned ==
    [][op' = "update_batch" =>
        LET written == IF raised' = NoError /\ batch_indices # NoBatch
                       THEN Entries(batch_indices)
                                \cap LeafIndices(memory, capacity)
                       ELSE ChangedLeaves(memory, memory')
        IN  \A i \in written :
                /\ i \in Entries(batch_indices)
                /\ StoredAtGetBatch(i)]_vars

====
